---- MODULE Spec2Model ----
(***************************************************************************)
(* Model of src/app.py: the lease order (PhoneOrder) and the mixed-product *)
(* simulation engine (MerchantSimulator3) with its derived-series          *)
(* accessors.                                                              *)
(*                                                                         *)
(* Amounts and rates are Python floats in the source.  They are modelled   *)
(* as exact rationals <<numerator, denominator>> in lowest terms with a    *)
(* positive denominator, so equalities stated here are the source's        *)
(* equalities up to floating-point rounding.                               *)
(***************************************************************************)
EXTENDS Integers, Sequences, FiniteSets, TLC

(***************************************************************************)
(* Bounds of the explored input space.                                     *)
(***************************************************************************)
MaxMonths == 2
MaxPeriod == 3
MaxStart == 3
MaxHistory == 2

(***************************************************************************)
(* Exact rational arithmetic standing for Python float arithmetic.         *)
(***************************************************************************)
Abs(x) == IF x < 0 THEN -x ELSE x

RECURSIVE GCD(_, _)
GCD(a, b) == IF b = 0 THEN a ELSE GCD(b, a % b)

Norm(n, d) ==
    LET s == IF d < 0 THEN -1 ELSE 1
        g == GCD(Abs(n), Abs(d))
    IN  <<(s * n) \div g, (s * d) \div g>>

R(n, d) == Norm(n, d)
Zero == <<0, 1>>
One == <<1, 1>>
RAdd(a, b) == Norm(a[1] * b[2] + b[1] * a[2], a[2] * b[2])
RSub(a, b) == Norm(a[1] * b[2] - b[1] * a[2], a[2] * b[2])
RMul(a, b) == Norm(a[1] * b[1], a[2] * b[2])
RDiv(a, b) == Norm(a[1] * b[2], a[2] * b[1])
RNeg(a) == <<-a[1], a[2]>>
RLe(a, b) == a[1] * b[2] <= b[1] * a[2]
RLt(a, b) == a[1] * b[2] < b[1] * a[2]
RAbs(a) == <<Abs(a[1]), a[2]>>

\* [0] * n: a list of n zeros, empty when n <= 0
Zeros(n) == [i \in 1..n |-> Zero]

RECURSIVE RSum(_)
RSum(s) == IF Len(s) = 0 THEN Zero ELSE RAdd(RSum(SubSeq(s, 1, Len(s) - 1)), s[Len(s)])

(***************************************************************************)
(* PhoneOrder                                                              *)
(***************************************************************************)
PhoneOrder(start_month, phone_cost, lease_rate, repayment_period, first_payment_terms, default) ==
    LET total == RMul(phone_cost, RAdd(One, lease_rate))
    IN  [start_month |-> start_month,
         phone_cost |-> phone_cost,
         lease_rate |-> lease_rate,
         repayment_period |-> repayment_period,
         first_payment_terms |-> first_payment_terms,
         default |-> default,
         total_repayment |-> total,
         monthly_payment |-> RDiv(total, R(repayment_period, 1))]

\* a schedule one entry short
ScheduleLenShort(o) == o.repayment_period - o.first_payment_terms

\* length of the schedule that follows the leading zeros
ScheduleLen(o) == o.repayment_period - o.first_payment_terms + 1

\* a first entry of one payment, whatever first_payment_terms
FirstPaymentSingle(o) == o.monthly_payment

\* the first entry of the schedule: all bundled first-payment terms at once
FirstPayment(o) == RMul(o.monthly_payment, R(o.first_payment_terms, 1))

\* the schedule of a non-defaulted order (requires ScheduleLen(o) >= 1)
Repayments(o) ==
    [i \in 1..ScheduleLen(o) |-> IF i = 1 THEN FirstPayment(o) ELSE o.monthly_payment]

\* a defaulted order returned without its leading zeros
CashflowDefaultUnaligned(o) ==
    LET cashflows == Zeros(o.start_month - 1)
    IN  IF o.default
        THEN [err |-> "", val |-> Zeros(ScheduleLen(o))]
        ELSE IF ScheduleLen(o) <= 0
             THEN [err |-> "IndexError", val |-> <<>>]
             ELSE [err |-> "", val |-> cashflows \o Repayments(o)]

\* get_monthly_cashflow(): err is "IndexError" when repayments[0] is assigned
\* in an empty list, "" otherwise; val is the returned list
get_monthly_cashflow(o) ==
    LET cashflows == Zeros(o.start_month - 1)
    IN  IF o.default
        THEN [err |-> "", val |-> cashflows \o Zeros(ScheduleLen(o))]
        ELSE IF ScheduleLen(o) <= 0
             THEN [err |-> "IndexError", val |-> <<>>]
             ELSE [err |-> "", val |-> cashflows \o Repayments(o)]

(***************************************************************************)
(* Input spaces                                                            *)
(***************************************************************************)
PhoneCosts == {R(10, 1)}
LeaseRates == {Zero, R(3, 10), R(3, 5)}
BadDebtRates == {Zero, R(1, 2), One}
Product1Ratios == {Zero, R(1, 2), One}
\* (low, high) of monthly_order_range; the last one is inverted
OrderRanges == {<<0, 1>>, <<1, 1>>, <<2, 2>>, <<1, 0>>}
\* product 1: every period up to the bound, first-payment terms from none to
\* more than the period has
Products1 ==
    [lease_rate : {R(3, 10), R(3, 5)},
     repayment_period : 1..MaxPeriod,
     first_payment_terms : 0..MaxPeriod]
Products2 ==
    [lease_rate : {R(2, 5)},
     repayment_period : {2},
     first_payment_terms : {0, 1}]
\* no fee, no prepayment and full investment; or all three at work
Economics ==
    {[service_fee_rate |-> Zero, prepayment_rate |-> Zero, investment_ratio |-> One],
     [service_fee_rate |-> R(1, 10), prepayment_rate |-> R(1, 5), investment_ratio |-> R(1, 2)]}

\* the constructor stores its arguments unchecked (lines 56-69)
Config(months, phone_cost, p1, p2, product1_ratio, e, bad_debt_rate, range) ==
    [months |-> months,
     phone_cost |-> phone_cost,
     lease_rate1 |-> p1.lease_rate,
     repayment_period1 |-> p1.repayment_period,
     first_payment_terms1 |-> p1.first_payment_terms,
     lease_rate2 |-> p2.lease_rate,
     repayment_period2 |-> p2.repayment_period,
     first_payment_terms2 |-> p2.first_payment_terms,
     product1_ratio |-> product1_ratio,
     service_fee_rate |-> e.service_fee_rate,
     bad_debt_rate |-> bad_debt_rate,
     monthly_order_range |-> range,
     investment_ratio |-> e.investment_ratio,
     prepayment_rate |-> e.prepayment_rate]

Configs ==
    {Config(m, c, p1, p2, q, e, b, rg) :
        m \in 0..MaxMonths, c \in PhoneCosts, p1 \in Products1, p2 \in Products2,
        q \in Product1Ratios, e \in Economics, b \in BadDebtRates, rg \in OrderRanges}

(***************************************************************************)
(* State                                                                   *)
(***************************************************************************)
VARIABLES
    self,                  \* the constructor arguments of the engine
    monthly_investments,
    total_cashflow,
    orders,
    monthly_order_count,
    pc,                    \* "idle", "month", "order" or "raised"
    month,                 \* loop variable of simulate()
    n_left,                \* iterations left of the inner order loop
    investment_this_month,
    simulated,             \* some simulate() call has returned
    raised,                \* the exception that left simulate(), "" if none
    order,                 \* the PhoneOrder under test (order specification)
    cashflows,             \* what its get_monthly_cashflow() returned
    called                 \* "no", "returned" or the exception raised

engine_vars == <<self, monthly_investments, total_cashflow, orders, monthly_order_count,
                 pc, month, n_left, investment_this_month, simulated, raised>>
order_vars == <<order, cashflows, called>>
vars == <<engine_vars, order_vars>>

(***************************************************************************)
(* MerchantSimulator3.simulate                                             *)
(***************************************************************************)
Max(a, b) == IF a >= b THEN a ELSE b

\* the longest repayment tail of the two products
MaxTail(c) ==
    Max(c.repayment_period1 - c.first_payment_terms1,
        c.repayment_period2 - c.first_payment_terms2)

\* a horizon that looks at the tail of product 1 only
MaxMonthsProduct1(c) == c.months + (c.repayment_period1 - c.first_payment_terms1)

\* max_months: the length simulate() gives total_cashflow
MaxMonthsOf(c) == c.months + MaxTail(c)

\* random.randint(low, high): the values it can return; none when low > high,
\* where it raises ValueError
RandInt(range) == range[1]..range[2]

\* random.random() < product1_ratio, random() being in [0, 1)
IsProduct1Draws(ratio) ==
    IF RLe(ratio, Zero) THEN {FALSE}
    ELSE IF RLe(One, ratio) THEN {TRUE}
    ELSE BOOLEAN

AdjustedLeaseRate(c, lease_rate) ==
    RAdd(RMul(c.prepayment_rate, RDiv(lease_rate, R(2, 1))),
         RMul(RSub(One, c.prepayment_rate), lease_rate))

ServiceFee(c, lease_rate) ==
    RMul(RMul(c.phone_cost, RAdd(One, lease_rate)), c.service_fee_rate)

InvestmentPerOrder(c, lease_rate) ==
    RMul(RAdd(c.phone_cost, ServiceFee(c, lease_rate)), c.investment_ratio)

\* the order built for one iteration of the inner loop
NewOrder(c, m, is_product1) ==
    IF is_product1
    THEN PhoneOrder(m, c.phone_cost, AdjustedLeaseRate(c, c.lease_rate1),
                    c.repayment_period1, c.first_payment_terms1, FALSE)
    ELSE PhoneOrder(m, c.phone_cost, AdjustedLeaseRate(c, c.lease_rate2),
                    c.repayment_period2, c.first_payment_terms2, FALSE)

\* a scaling that takes the bad-debt rate as a gain
ScaleBadDebtUp(c, cashflow) ==
    [i \in 1..Len(cashflow) |-> RMul(cashflow[i], RAdd(One, c.bad_debt_rate))]

\* cashflow = [cf * (1 - bad_debt_rate) for cf in cashflow]
ScaleBadDebt(c, cashflow) ==
    [i \in 1..Len(cashflow) |-> RMul(cashflow[i], RSub(One, c.bad_debt_rate))]

\* for i in range(len(cashflow)): total_cashflow[i] += cashflow[i] * ratio
\* the entries written before the loop ends or indexes past the end
Accumulate(total, cashflow, ratio) ==
    [i \in 1..Len(total) |->
        IF i <= Len(cashflow) THEN RAdd(total[i], RMul(cashflow[i], ratio)) ELSE total[i]]

\* lines 77-78, and the return when the month loop has no iteration
SimulateEnter ==
    /\ pc = "idle"
    /\ Len(monthly_order_count) + self.months <= MaxHistory
    /\ total_cashflow' = Zeros(MaxMonthsOf(self))
    /\ month' = 1
    /\ pc' = "month"
    /\ UNCHANGED <<self, monthly_investments, orders, monthly_order_count, n_left,
                   investment_this_month, simulated, raised, order_vars>>

\* lines 80-84: the head of one iteration of the month loop
MonthBegin ==
    /\ pc = "month"
    /\ month <= self.months
    /\ IF RandInt(self.monthly_order_range) = {}
       THEN /\ pc' = "raised"
            /\ raised' = "ValueError"
            /\ UNCHANGED <<monthly_order_count, n_left, investment_this_month>>
       ELSE \E n_orders \in RandInt(self.monthly_order_range) :
            /\ monthly_order_count' = Append(monthly_order_count, n_orders)
            /\ investment_this_month' = Zero
            /\ n_left' = n_orders
            /\ pc' = "order"
            /\ UNCHANGED raised
    /\ UNCHANGED <<self, monthly_investments, total_cashflow, orders, month, simulated,
                   order_vars>>

\* lines 86-115: one iteration of the order loop
AddOrder ==
    /\ pc = "order"
    /\ n_left > 0
    /\ \E is_product1 \in IsProduct1Draws(self.product1_ratio) :
        LET lease_rate == IF is_product1 THEN self.lease_rate1 ELSE self.lease_rate2
            o == NewOrder(self, month, is_product1)
            got == get_monthly_cashflow(o)
            cashflow == ScaleBadDebt(self, got.val)
        IN  /\ investment_this_month' =
                   RAdd(investment_this_month, InvestmentPerOrder(self, lease_rate))
            /\ orders' = Append(orders, o)
            /\ IF got.err # ""
               THEN /\ pc' = "raised"
                    /\ raised' = got.err
                    /\ UNCHANGED <<total_cashflow, n_left>>
               ELSE /\ total_cashflow' =
                           Accumulate(total_cashflow, cashflow, self.investment_ratio)
                    /\ IF Len(cashflow) > Len(total_cashflow)
                       THEN /\ pc' = "raised"
                            /\ raised' = "IndexError"
                            /\ UNCHANGED n_left
                       ELSE /\ n_left' = n_left - 1
                            /\ UNCHANGED <<pc, raised>>
    /\ UNCHANGED <<self, monthly_investments, monthly_order_count, month, simulated,
                   order_vars>>

\* line 117: the end of one iteration of the month loop
MonthEnd ==
    /\ pc = "order"
    /\ n_left = 0
    /\ monthly_investments' = Append(monthly_investments, investment_this_month)
    /\ month' = month + 1
    /\ pc' = "month"
    /\ UNCHANGED <<self, total_cashflow, orders, monthly_order_count, n_left,
                   investment_this_month, simulated, raised, order_vars>>

\* the month loop is exhausted: simulate() returns
SimulateReturn ==
    /\ pc = "month"
    /\ month > self.months
    /\ pc' = "idle"
    /\ simulated' = TRUE
    /\ UNCHANGED <<self, monthly_investments, total_cashflow, orders, monthly_order_count,
                   month, n_left, investment_this_month, raised, order_vars>>

(***************************************************************************)
(* Accessors                                                               *)
(***************************************************************************)
\* the investment of the following month subtracted
NetShifted ==
    [i \in 1..Len(total_cashflow) |->
        RSub(total_cashflow[i],
             IF i + 1 <= Len(monthly_investments) THEN monthly_investments[i + 1] ELSE Zero)]

get_net_cashflow ==
    [i \in 1..Len(total_cashflow) |->
        RSub(total_cashflow[i],
             IF i <= Len(monthly_investments) THEN monthly_investments[i] ELSE Zero)]

\* running sums of a list
RunningSum(s) == [i \in 1..Len(s) |-> RSum(SubSeq(s, 1, i))]

get_cumulative_cashflow == RunningSum(get_net_cashflow)

\* cum[-1] of an empty list raises IndexError, whatever the padding length
get_cumulative_investment ==
    LET cum == RunningSum(monthly_investments)
    IN  IF Len(cum) = 0
        THEN [err |-> "IndexError", val |-> <<>>]
        ELSE [err |-> "",
              val |-> cum \o [i \in 1..(Len(total_cashflow) - Len(cum)) |-> cum[Len(cum)]]]

\* min() of a list
RECURSIVE RMin(_)
RMin(s) ==
    IF Len(s) = 1 THEN s[1]
    ELSE LET m == RMin(Tail(s)) IN IF RLe(s[1], m) THEN s[1] ELSE m

\* min() of an empty list raises ValueError
get_actual_investment ==
    LET cum_net == get_cumulative_cashflow
    IN  IF Len(cum_net) = 0
        THEN [err |-> "ValueError", val |-> Zero]
        ELSE [err |-> "", val |-> RAbs(RMin(cum_net))]

\* the value standing for Python's None where a month number is expected
None == 0

\* a scan that asks for a strictly positive cumulative cash flow
RECURSIVE BreakevenFromStrict(_, _)
BreakevenFromStrict(cum, i) ==
    IF i >= Len(cum) THEN None
    ELSE IF RLt(Zero, cum[i + 1]) THEN i + 1
    ELSE BreakevenFromStrict(cum, i + 1)

\* the enumerate loop from (0-based) index i on
RECURSIVE BreakevenFrom(_, _)
BreakevenFrom(cum, i) ==
    IF i >= Len(cum) THEN None
    ELSE IF RLe(Zero, cum[i + 1]) THEN i + 1
    ELSE BreakevenFrom(cum, i + 1)

get_breakeven_month == BreakevenFrom(get_cumulative_cashflow, 0)

(***************************************************************************)
(* simulate() as a function of the configuration and the random draws      *)
(***************************************************************************)
\* draws is the sequence, in the order of the loops, of the product draws of
\* a run, each with the month of its iteration

\* total_cashflow after the first k draws (lines 78 and 112-115)
RECURSIVE CashflowAfter(_, _, _)
CashflowAfter(c, draws, k) ==
    IF k = 0 THEN Zeros(MaxMonthsOf(c))
    ELSE Accumulate(CashflowAfter(c, draws, k - 1),
                    ScaleBadDebt(c, get_monthly_cashflow(
                        NewOrder(c, draws[k].month, draws[k].is_product1)).val),
                    c.investment_ratio)

\* investment_this_month of month m after the first k draws (lines 84-101)
RECURSIVE InvestmentAfter(_, _, _, _)
InvestmentAfter(c, draws, m, k) ==
    IF k = 0 THEN Zero
    ELSE IF draws[k].month = m
         THEN RAdd(InvestmentAfter(c, draws, m, k - 1),
                   InvestmentPerOrder(c, IF draws[k].is_product1
                                         THEN c.lease_rate1 ELSE c.lease_rate2))
         ELSE InvestmentAfter(c, draws, m, k - 1)

\* the run state simulate() leaves on a fresh engine
SimulateWith(c, draws) ==
    [total_cashflow |-> CashflowAfter(c, draws, Len(draws)),
     monthly_investments |->
         [m \in 1..c.months |-> InvestmentAfter(c, draws, m, Len(draws))],
     monthly_order_count |->
         [m \in 1..c.months |-> Cardinality({k \in 1..Len(draws) : draws[k].month = m})]]

\* get_net_cashflow() and the last entry of get_cumulative_cashflow() of a
\* run state
FinalCumulativeOf(run) ==
    RSum([i \in 1..Len(run.total_cashflow) |->
            RSub(run.total_cashflow[i],
                 IF i <= Len(run.monthly_investments)
                 THEN run.monthly_investments[i] ELSE Zero)])

\* the draws that built the orders of the engine
DrawsOf ==
    [k \in 1..Len(orders) |->
        [month |-> orders[k].start_month,
         is_product1 |-> orders[k] = NewOrder(self, orders[k].start_month, TRUE)]]

(***************************************************************************)
(* Sensitivity drivers                                                     *)
(***************************************************************************)
\* max() of a list
RECURSIVE RMax(_)
RMax(s) ==
    IF Len(s) = 1 THEN s[1]
    ELSE LET m == RMax(Tail(s)) IN IF RLe(m, s[1]) THEN s[1] ELSE m

\* total_repayment = max(sim.get_cumulative_cashflow()) / 10_000: what
\* run_bad_debt_sensitivity, run_prepayment_sensitivity and
\* run_product1_ratio_sensitivity record for the engine they have just run;
\* max() of an empty list raises ValueError
SensitivityMetric ==
    LET cum == get_cumulative_cashflow
    IN  IF Len(cum) = 0
        THEN [err |-> "ValueError", val |-> Zero]
        ELSE [err |-> "", val |-> RDiv(RMax(cum), R(10000, 1))]

(***************************************************************************)
(* A PhoneOrder on its own                                                 *)
(***************************************************************************)
OrderInputs ==
    {PhoneOrder(s, c, r, p, f, d) :
        s \in 1..MaxStart, c \in PhoneCosts, r \in LeaseRates,
        p \in 1..MaxPeriod, f \in 0..(MaxPeriod + 1), d \in BOOLEAN}

CallGetMonthlyCashflow ==
    /\ called = "no"
    /\ LET got == get_monthly_cashflow(order)
       IN  /\ cashflows' = got.val
           /\ called' = IF got.err = "" THEN "returned" ELSE got.err
    /\ UNCHANGED <<order, engine_vars>>

(***************************************************************************)
(* Specifications                                                          *)
(***************************************************************************)
InUnit(x) == RLe(Zero, x) /\ RLe(x, One)

\* the documented domain of the configuration
ValidConfig(c) ==
    /\ c.months >= 0
    /\ c.repayment_period1 >= 1
    /\ c.repayment_period2 >= 1
    /\ c.first_payment_terms1 >= 0 /\ c.first_payment_terms1 < c.repayment_period1
    /\ c.first_payment_terms2 >= 0 /\ c.first_payment_terms2 < c.repayment_period2
    /\ c.monthly_order_range[1] <= c.monthly_order_range[2]
    /\ InUnit(c.product1_ratio) /\ InUnit(c.prepayment_rate)
    /\ InUnit(c.bad_debt_rate) /\ InUnit(c.service_fee_rate)
    /\ RLt(Zero, c.investment_ratio) /\ RLe(c.investment_ratio, One)

\* the order variables of a run of the engine, which tests no order on its own
NoOrder == PhoneOrder(1, R(10, 1), Zero, 1, 0, FALSE)

EngineInit ==
    /\ self \in Configs
    /\ monthly_investments = <<>>
    /\ total_cashflow = <<>>
    /\ orders = <<>>
    /\ monthly_order_count = <<>>
    /\ pc = "idle"
    /\ month = 0
    /\ n_left = 0
    /\ investment_this_month = Zero
    /\ simulated = FALSE
    /\ raised = ""

Init ==
    /\ EngineInit
    /\ order = NoOrder
    /\ cashflows = <<>>
    /\ called = "no"

Next ==
    \/ SimulateEnter
    \/ MonthBegin
    \/ AddOrder
    \/ MonthEnd
    \/ SimulateReturn

Spec == Init /\ [][Next]_vars

\* a sensitivity driver builds one engine per swept value from the fixed
\* parameters of the form and calls simulate() on it once
SweepInit == Init /\ ValidConfig(self)

SweepRun == ~simulated /\ SimulateEnter

SweepNext ==
    \/ SweepRun
    \/ MonthBegin
    \/ AddOrder
    \/ MonthEnd
    \/ SimulateReturn

SweepSpec == SweepInit /\ [][SweepNext]_vars

\* the constructor's default arguments
DefaultConfig ==
    [months |-> 12, phone_cost |-> R(5000, 1),
     lease_rate1 |-> R(3, 10), repayment_period1 |-> 9, first_payment_terms1 |-> 2,
     lease_rate2 |-> R(4, 10), repayment_period2 |-> 12, first_payment_terms2 |-> 3,
     product1_ratio |-> R(1, 2), service_fee_rate |-> Zero, bad_debt_rate |-> Zero,
     monthly_order_range |-> <<19, 20>>, investment_ratio |-> One,
     prepayment_rate |-> R(2, 10)]

OrderInit ==
    /\ self = DefaultConfig
    /\ monthly_investments = <<>>
    /\ total_cashflow = <<>>
    /\ orders = <<>>
    /\ monthly_order_count = <<>>
    /\ pc = "idle"
    /\ month = 0
    /\ n_left = 0
    /\ investment_this_month = Zero
    /\ simulated = FALSE
    /\ raised = ""
    /\ order \in OrderInputs
    /\ cashflows = <<>>
    /\ called = "no"

OrderNext == CallGetMonthlyCashflow

OrderSpec == OrderInit /\ [][OrderNext]_vars

(***************************************************************************)
(* Properties                                                              *)
(***************************************************************************)
\* some simulate() call has returned and none is under way
Returned == pc = "idle" /\ simulated

\* simulate() has returned, once, on a freshly constructed engine
FirstRunDone ==
    /\ pc = "idle"
    /\ simulated
    /\ Len(monthly_order_count) = self.months

\* C1: the cash flows of a non-defaulted order with 0 <= first_payment_terms <
\* repayment_period sum to phone_cost * (1 + lease_rate), whatever
\* first_payment_terms and start_month are
C1_ScheduleTotal ==
    (/\ called = "returned"
     /\ ~order.default
     /\ order.first_payment_terms < order.repayment_period)
    => RSum(cashflows) = RMul(order.phone_cost, RAdd(One, order.lease_rate))

C1_Witness ==
    /\ called = "returned"
    /\ ~order.default
    /\ order.first_payment_terms = 2
    /\ order.repayment_period = 3
    /\ order.start_month = 2
    /\ order.lease_rate = R(3, 10)
    /\ RSum(cashflows) = R(13, 1)

\* C2: a non-defaulted order returns start_month - 1 zeros, then a schedule of
\* repayment_period - first_payment_terms + 1 entries: first
\* monthly_payment * first_payment_terms, then one monthly_payment each
C2_ScheduleShape ==
    (called = "returned" /\ ~order.default) =>
        LET lead == order.start_month - 1
            n == order.repayment_period - order.first_payment_terms + 1
            payment == RDiv(RMul(order.phone_cost, RAdd(One, order.lease_rate)),
                            R(order.repayment_period, 1))
        IN  /\ Len(cashflows) = lead + n
            /\ \A i \in 1..lead : cashflows[i] = Zero
            /\ cashflows[lead + 1] = RMul(payment, R(order.first_payment_terms, 1))
            /\ \A i \in (lead + 2)..(lead + n) : cashflows[i] = payment

\* one double payment followed by one single payment, after two zeros
C2_Witness ==
    /\ called = "returned"
    /\ ~order.default
    /\ order.start_month = 3
    /\ order.repayment_period = 3
    /\ order.first_payment_terms = 2
    /\ order.lease_rate = R(3, 5)
    /\ cashflows = <<Zero, Zero, R(32, 3), R(16, 3)>>

\* the case of the conservation property: one period, one order, no bad debt,
\* no fee, no prepayment, full investment
SingleOrderRun ==
    /\ FirstRunDone
    /\ ValidConfig(self)
    /\ self.months = 1
    /\ self.monthly_order_range = <<1, 1>>
    /\ self.bad_debt_rate = Zero
    /\ self.service_fee_rate = Zero
    /\ self.prepayment_rate = Zero
    /\ self.investment_ratio = One

LastOf(s) == s[Len(s)]

\* C3 as stated: the final cumulative cash flow is phone_cost * lease_rate and
\* the minimum cumulative cash flow is -phone_cost, for every admissible
\* repayment_period and first_payment_terms
C3_Original ==
    SingleOrderRun =>
        /\ LastOf(get_cumulative_cashflow) = RMul(self.phone_cost, orders[1].lease_rate)
        /\ RMin(get_cumulative_cashflow) = RNeg(self.phone_cost)

\* C3 as amended: the final cumulative cash flow is phone_cost * lease_rate; the
\* minimum cumulative cash flow is the first payment less phone_cost, which is
\* -phone_cost exactly when first_payment_terms = 0
C3_Conservation ==
    SingleOrderRun =>
        LET o == orders[1]
            first == RDiv(RMul(RMul(self.phone_cost, RAdd(One, o.lease_rate)),
                               R(o.first_payment_terms, 1)),
                          R(o.repayment_period, 1))
        IN  /\ o.lease_rate \in {self.lease_rate1, self.lease_rate2}
            /\ LastOf(get_cumulative_cashflow) = RMul(self.phone_cost, o.lease_rate)
            /\ RMin(get_cumulative_cashflow) = RSub(first, self.phone_cost)
            /\ (RMin(get_cumulative_cashflow) = RNeg(self.phone_cost))
                   <=> (o.first_payment_terms = 0)

C3_Witness ==
    /\ SingleOrderRun
    /\ orders[1].first_payment_terms = 2
    /\ orders[1].repayment_period = 3
    /\ orders[1].lease_rate = R(3, 10)
    /\ LastOf(get_cumulative_cashflow) = R(3, 1)
    /\ RMin(get_cumulative_cashflow) = R(-4, 3)

\* C4: on a valid configuration simulate() raises nothing, total_cashflow has
\* months + max(repayment_period1 - first_payment_terms1, repayment_period2 -
\* first_payment_terms2) entries from its first statement on, and when it has
\* returned the cash flows of an order of either product started in any
\* month fit in total_cashflow
C4_HorizonLength ==
    ValidConfig(self) =>
        /\ raised = ""
        /\ (pc # "idle" \/ simulated) =>
              LET t1 == self.repayment_period1 - self.first_payment_terms1
                  t2 == self.repayment_period2 - self.first_payment_terms2
              IN  Len(total_cashflow) = self.months + (IF t1 >= t2 THEN t1 ELSE t2)
        /\ Returned =>
              \A m \in 1..self.months : \A p \in BOOLEAN :
                  Len(get_monthly_cashflow(NewOrder(self, m, p)).val)
                      <= Len(total_cashflow)

\* a completed run with orders of both products, the shorter-tailed one last
C4_Witness ==
    /\ FirstRunDone
    /\ ValidConfig(self)
    /\ self.months = 2
    /\ Len(orders) = 4
    /\ \E i, j \in 1..Len(orders) :
          /\ orders[i].start_month = 2
          /\ orders[j].start_month = 2
          /\ orders[i].repayment_period - orders[i].first_payment_terms
                > orders[j].repayment_period - orders[j].first_payment_terms
          /\ Len(total_cashflow) = 2 + orders[i].repayment_period
                                     - orders[i].first_payment_terms

RECURSIVE SumOf(_)
SumOf(s) == IF Len(s) = 0 THEN 0 ELSE s[1] + SumOf(Tail(s))

AllZero(s) == \A i \in 1..Len(s) : s[i] = Zero

\* C5: whenever a simulate() call has returned, also a second or later one,
\* the run state is that of one run: monthly_investments and
\* monthly_order_count have months entries and orders has as many entries as
\* the order counts add up to
C5_SingleRunState ==
    Returned =>
        /\ Len(monthly_investments) = self.months
        /\ Len(monthly_order_count) = self.months
        /\ Len(orders) = SumOf(SubSeq(monthly_order_count, 1, self.months))

\* C6: get_breakeven_month() is the smallest 1-based index at which the
\* cumulative cash flow is >= 0, and None exactly when no entry is >= 0
C6_Breakeven ==
    Returned =>
        LET cum == get_cumulative_cashflow
            b == get_breakeven_month
            reached == {i \in 1..Len(cum) : RLe(Zero, cum[i])}
        IN  /\ (b = None) <=> (reached = {})
            /\ (b # None) => (b \in reached /\ \A j \in reached : b <= j)

\* a run whose cumulative cash flow is negative for two periods and breaks
\* even in the third, before the end of the horizon
C6_Witness ==
    /\ FirstRunDone
    /\ get_breakeven_month = 3
    /\ RLt(get_cumulative_cashflow[2], Zero)
    /\ Len(get_cumulative_cashflow) > 3

\* C7: get_actual_investment() is the largest unrecovered capital of the
\* horizon, the maximum over the periods t of max(0, -cumulative[t]), so it
\* is 0 when the cumulative cash flow is never negative
C7_PeakExposure ==
    (Returned /\ ValidConfig(self)) =>
        LET cum == get_cumulative_cashflow
            unrecovered == [t \in 1..Len(cum) |->
                               IF RLt(cum[t], Zero) THEN RNeg(cum[t]) ELSE Zero]
            got == get_actual_investment
        IN  /\ got.err = ""
            /\ \A t \in 1..Len(cum) : RLe(unrecovered[t], got.val)
            /\ got.val = Zero \/ \E t \in 1..Len(cum) : unrecovered[t] = got.val

\* C8: with months = 0, or with no order drawn in any period, every accessor
\* returns without raising, every series is all zero, no breakeven is
\* reported and the peak exposure is 0
C8_Degenerate ==
    (/\ Returned
     /\ ValidConfig(self)
     /\ \A i \in 1..Len(monthly_order_count) : monthly_order_count[i] = 0) =>
        /\ get_cumulative_investment.err = ""
        /\ get_actual_investment.err = ""
        /\ AllZero(total_cashflow)
        /\ AllZero(monthly_investments)
        /\ AllZero(get_net_cashflow)
        /\ AllZero(get_cumulative_cashflow)
        /\ AllZero(get_cumulative_investment.val)
        /\ get_actual_investment.val = Zero
        /\ get_breakeven_month = None

\* C9: a configuration outside the documented domain is rejected before
\* simulate() changes any run state: it never gets into the loops, never
\* returns normally and never raises an error of the run
C9_InvalidRejected ==
    ~ValidConfig(self) =>
        /\ pc = "idle"
        /\ ~simulated
        /\ raised = ""
        /\ monthly_investments = <<>>
        /\ total_cashflow = <<>>
        /\ orders = <<>>
        /\ monthly_order_count = <<>>

\* C10: with bad_debt_rate = 1, get_breakeven_month() returns None after
\* simulate(), whatever the order counts and product draws
C10_NoBreakevenAllBadDebt ==
    (/\ FirstRunDone
     /\ ValidConfig(self)
     /\ self.months >= 1
     /\ self.bad_debt_rate = One) =>
        get_breakeven_month = None

\* the order under test, no first-payment terms, not defaulted, returned
NoFirstTerms ==
    /\ called = "returned"
    /\ ~order.default
    /\ order.first_payment_terms = 0

\* C13 as stated: with first_payment_terms = 0 the entry of the origination
\* period is one monthly_payment
C13_Original ==
    NoFirstTerms => cashflows[order.start_month] = order.monthly_payment

\* C13 as amended: with first_payment_terms = 0 the entry of the origination
\* period is monthly_payment * 0 = 0, and the repayment_period entries after
\* it are one monthly_payment each
C13_ZeroFirstTerms ==
    NoFirstTerms =>
        LET payment == RDiv(RMul(order.phone_cost, RAdd(One, order.lease_rate)),
                            R(order.repayment_period, 1))
        IN  /\ cashflows[order.start_month] = Zero
            /\ Len(cashflows) = order.start_month + order.repayment_period
            /\ \A i \in 1..order.repayment_period :
                  cashflows[order.start_month + i] = payment

C13_Witness ==
    /\ NoFirstTerms
    /\ order.start_month = 2
    /\ order.repayment_period = 2
    /\ order.lease_rate = R(3, 5)
    /\ cashflows = <<Zero, Zero, R(8, 1), R(8, 1)>>

\* the order under test with its default flag set the other way
Twin(o) ==
    PhoneOrder(o.start_month, o.phone_cost, o.lease_rate, o.repayment_period,
               o.first_payment_terms, ~o.default)

\* C14: a defaulted order returns zeros only, summing to 0, and as many of
\* them as the order with the same parameters and default = False returns
C14_DefaultZeroing ==
    (called = "returned" /\ order.default) =>
        /\ AllZero(cashflows)
        /\ RSum(cashflows) = Zero
        /\ get_monthly_cashflow(Twin(order)).err = ""
              => Len(cashflows) = Len(get_monthly_cashflow(Twin(order)).val)

C14_Witness ==
    /\ called = "returned"
    /\ order.default
    /\ order.start_month = 3
    /\ order.repayment_period = 3
    /\ order.first_payment_terms = 1
    /\ Len(cashflows) = 5
    /\ get_monthly_cashflow(Twin(order)).val[3] # Zero
    /\ Len(get_monthly_cashflow(Twin(order)).val) = 5

\* no investment after period months: from there on the net cash flow is the
\* inflow, which is not negative, and the cumulative cash flow does not fall
NoLateInvestment ==
    LET net == get_net_cashflow
        cum == get_cumulative_cashflow
    IN  \A t \in (self.months + 1)..Len(total_cashflow) :
            /\ net[t] = total_cashflow[t]
            /\ RLe(Zero, total_cashflow[t])
            /\ t > 1 => RLe(cum[t - 1], cum[t])

\* C15: in every state reached after simulate() has returned on a valid
\* configuration, no investment is attributed to a period later than months:
\* for t > months the net cash flow is total_cashflow[t] >= 0 and the
\* cumulative cash flow is non-decreasing from period months on
C15_NoLateInvestment ==
    (Returned /\ ValidConfig(self)) => NoLateInvestment

\* C12: the metric a sensitivity driver records for a run is the final entry
\* of that run's cumulative cash flow, in units of 10,000
C12_MetricIsFinal ==
    FirstRunDone =>
        /\ SensitivityMetric.err = ""
        /\ SensitivityMetric.val = RDiv(LastOf(get_cumulative_cashflow), R(10000, 1))

\* C11: of two engines that differ only in bad_debt_rate, b1 <= b2, and see
\* the same draws, the b2 one ends with a final cumulative cash flow that is
\* not larger, and with the same monthly_investments and monthly_order_count.
\* The engine of the state is the b1 one; the b2 one is run on its draws.
\* (Each run is bound to a variable, which has it evaluated once.)
C11_BadDebtMonotone ==
    FirstRunDone =>
        \A same \in {SimulateWith(self, DrawsOf)} :
        \A final1 \in {FinalCumulativeOf(same)} :
            /\ same.total_cashflow = total_cashflow
            /\ same.monthly_investments = monthly_investments
            /\ same.monthly_order_count = monthly_order_count
            /\ final1 = LastOf(get_cumulative_cashflow)
            /\ \A b2 \in {b \in BadDebtRates : RLe(self.bad_debt_rate, b)} :
               \A other \in {SimulateWith([self EXCEPT !.bad_debt_rate = b2], DrawsOf)} :
               \A final2 \in {FinalCumulativeOf(other)} :
                  /\ RLe(final2, final1)
                  /\ other.monthly_investments = monthly_investments
                  /\ other.monthly_order_count = monthly_order_count

\* a run with orders of both products whose final cumulative cash flow is
\* strictly larger than that of the engine with a higher bad-debt rate
C11_Witness ==
    /\ FirstRunDone
    /\ self.bad_debt_rate = Zero
    /\ self.months = 2
    /\ \E i, j \in 1..Len(orders) :
          DrawsOf[i].is_product1 /\ ~DrawsOf[j].is_product1
    /\ RLt(FinalCumulativeOf(SimulateWith([self EXCEPT !.bad_debt_rate = R(1, 2)],
                                          DrawsOf)),
           LastOf(get_cumulative_cashflow))

====
